---- MODULE Spec2Model ----
(***************************************************************************)
(* A model of the streaming layer of deep-paper's frontend:                *)
(*   - useEventSource (components/utils/EventSourceManager.tsx), the hook  *)
(*     that owns one EventSource and accumulates its messages;             *)
(*   - the browser's EventSource objects it creates, and the React commit  *)
(*     (render, then the effects whose dependencies changed) that follows  *)
(*     every state update or owner re-render;                              *)
(*   - ResearchContainer: the session list, the active view, creation,     *)
(*     activation and deletion of sessions, the loading and title reports  *)
(*     of the Researcher view, the two localStorage keys it saves to and   *)
(*     restores from, and the view (and so the hook instance) it mounts.   *)
(***************************************************************************)
EXTENDS Integers, Sequences, FiniteSets, TLC

(***************************************************************************)
(* Bounds of the model.                                                    *)
(***************************************************************************)
\* longest accumulated message list explored
MaxMsgs == 2
\* number of times the connect effect may run (connection attempts)
MaxAttempts == 3
\* the completion-callback counter saturates here
MaxCalls == 2
\* longest session list explored
MaxTabs == 2
\* number of ids uuidv4() may hand out
MaxUuids == 2
\* largest n of an id `tab-n` that generateTabID may produce
MaxTabNum == 3
\* number of distinct ids that may be deleted in one run
MaxDeleted == 1

(***************************************************************************)
(* Values.                                                                 *)
(***************************************************************************)
\* eventSourceRef.current === null
NoSource == 0
\* onComplete === undefined
NoCallback == 0
\* two distinct function identities an owner can pass as onComplete
Callbacks == {NoCallback, 1, 2}
\* error === null
NoError == "null"
ProcessError == "Failed to process stream data. Please try again."
ConnectError == "Failed to establish connection. Please try again."

\* url: string | null.  `${null}` renders as the string "null".
NullUrl == "null"
\* an endpoint the EventSource constructor rejects with a SyntaxError
BadUrl == "http://["
Urls == {"/api/a", "/api/b", NullUrl, BadUrl}
InvalidUrl(u) == u = BadUrl

\* A parameter value: string | string[].
Scalar(v) == [isArray |-> FALSE, items |-> <<v>>]
List(vs) == [isArray |-> TRUE, items |-> vs]
\* queryParams: Record<string, string | string[]>, as functions key -> value.
P_empty == [k \in {} |-> Scalar("a")]
P_qa == [k \in {"q"} |-> Scalar("a")]
P_qb == [k \in {"q"} |-> Scalar("b")]
P_ra == [k \in {"r"} |-> Scalar("a")]
P_qL_a == [k \in {"q"} |-> List(<<"a">>)]
P_qL_ab == [k \in {"q"} |-> List(<<"a", "b">>)]
P_qL_ac == [k \in {"q"} |-> List(<<"a", "c">>)]
P_qEmpty == [k \in {"q"} |-> Scalar("")]
P_qL_none == [k \in {"q"} |-> List(<<>>)]
ParamSets == {P_empty, P_qa, P_qb, P_ra, P_qL_a, P_qL_ab, P_qL_ac}

\* event.data of an inbound event: text that JSON.parse rejects, or an object
\* with a type discriminator.
Events ==
    { [parses |-> TRUE, type |-> "status", content |-> "starting"],
      [parses |-> TRUE, type |-> "content", content |-> "The "],
      [parses |-> TRUE, type |-> "error", content |-> "boom"],
      [parses |-> TRUE, type |-> "complete", content |-> ""],
      [parses |-> FALSE, type |-> "", content |-> ""] }

\* Session ids and the two reserved views, as activeTabID and tab.id hold them.
Explore == <<"explore">>
DeepResearch == <<"deep-research">>
\* The number parseInt returns for text that does not start with a digit.
NaN == -1
\* `tab-${n}`; n = NaN is the id "tab-NaN".
TabId(n) == <<"tab", n>>
\* The n-th id uuidv4() handed out.  Its second dash-separated group is four
\* random hex digits: g is what parseInt(group, 10) makes of them.
Uuid(n, g) == <<"uuid", n, g>>
\* parseInt of the second group: NaN when it starts with a letter a-f.
UuidGroups == {NaN, 1}

\* an optional field that is absent
Undefined == "undefined"
\* localStorage.getItem(key) for a key that was never set: null
NoItem == [present |-> FALSE, parses |-> FALSE, value |-> <<>>]
\* A localStorage without the container's keys; researchState is the set of
\* the ids whose key `research-state-${id}` holds an item.
EmptyStorage == [researchTabs |-> NoItem, researchActiveTab |-> <<>>, researchState |-> {}]

VARIABLES
    phase,          \* of the hook instance: "none", "initial" (rendered, effects
                    \* not yet run), "mounted", "unmounted"
    url,            \* props of the last render
    queryParams,
    enabled,
    onComplete,
    hook,           \* the hook's state, refs and the EventSources it created
    owner,          \* the id of the view (session) that rendered the hook instance
    zombies,        \* owners of discarded hook instances that left an EventSource open
    container,      \* ResearchContainer: "initial" (effects not yet run) or "mounted"
    tabs,           \* ResearchContainer's tabs state
    activeTabID,    \* ResearchContainer's activeTabID state
    location,       \* the path last given to window.history.pushState, or <<>>
    uuids,          \* number of ids uuidv4() has handed out
    deleted,        \* ids handleDeleteTab was called with
    localStorage    \* window.localStorage: the keys "research-tabs" and
                    \* "research-active-tab"

propVars == <<url, queryParams, enabled, onComplete>>
hookVars == <<phase, url, queryParams, enabled, onComplete, hook, owner, zombies>>
wsVars == <<container, tabs, activeTabID, location, uuids, deleted, localStorage>>
vars == <<phase, url, queryParams, enabled, onComplete, hook, owner, zombies,
          container, tabs, activeTabID, location, uuids, deleted, localStorage>>

(***************************************************************************)
(* hook is a record:                                                       *)
(*   messages, status, error   the three useState cells                    *)
(*   eventSourceRef            id of the referenced EventSource / NoSource *)
(*   queryParamsRef            <<>> for null, <<p>> for the bound params   *)
(*   open                      ids of the EventSources created by this     *)
(*                             hook on which close() was not called        *)
(*   attempts                  number of runs of the connect effect; the   *)
(*                             EventSource of the n-th run has id n        *)
(*   boundUrl                  <<>> or <<u>>: the url of the last connect  *)
(*   calls                     onComplete invocations since the last       *)
(*                             connect (saturating at MaxCalls)            *)
(*   errorSeen, completeSeen, transportSeen                                *)
(*                             what the current attempt's EventSource has  *)
(*                             delivered so far                            *)
(*   unmountClosed             the unmount cleanup found an EventSource    *)
(*                             open and closed it                          *)
(***************************************************************************)
InitialHook ==
    [ messages |-> <<>>, status |-> "idle", error |-> NoError,
      eventSourceRef |-> NoSource, queryParamsRef |-> <<>>,
      open |-> {}, attempts |-> 0, boundUrl |-> <<>>, calls |-> 0,
      errorSeen |-> FALSE, completeSeen |-> FALSE, transportSeen |-> FALSE,
      unmountClosed |-> FALSE, fullUrl |-> <<>> ]


(***************************************************************************)
(* The hook's functions.                                                   *)
(***************************************************************************)
\* One key of the loop at EventSourceManager.tsx:67-84: does the value under
\* `key` differ?  prevParams[key] is undefined when the key is absent, and
\* undefined is neither an array nor === to a string or an array.
valueDiffers(prevParams, currentParams, key) ==
    IF key \notin DOMAIN prevParams THEN TRUE
    ELSE LET prevValue == prevParams[key]
             currentValue == currentParams[key]
         IN IF prevValue.isArray /\ currentValue.isArray
            THEN \/ Len(prevValue.items) # Len(currentValue.items)
                 \/ \E i \in 1..Len(prevValue.items) :
                        prevValue.items[i] # currentValue.items[i]
            ELSE \* `prevValue !== currentValue`: an array is never === a string
                 \/ prevValue.isArray # currentValue.isArray
                 \/ prevValue.items # currentValue.items

\* haveQueryParamsChanged comparing the two objects by identity: the effect
\* calls it only for an object it has not seen.
haveQueryParamsChanged_byIdentity(prevRef, currentParams) == TRUE

\* haveQueryParamsChanged, with queryParamsRef.current and queryParams passed in.
haveQueryParamsChanged(prevRef, currentParams) ==
    IF prevRef = <<>> THEN TRUE
    ELSE LET prevParams == prevRef[1]
         IN IF Cardinality(DOMAIN prevParams) # Cardinality(DOMAIN currentParams)
            THEN TRUE
            ELSE \E key \in DOMAIN currentParams :
                     valueDiffers(prevParams, currentParams, key)

\* closeConnection with the close() call left out: the reference is dropped only.
closeConnection_noClose(h) ==
    [h EXCEPT !.eventSourceRef = NoSource]

\* closeConnection: close() the referenced EventSource and drop the reference.
closeConnection(h) ==
    IF h.eventSourceRef # NoSource
    THEN [h EXCEPT !.open = @ \ {h.eventSourceRef}, !.eventSourceRef = NoSource]
    ELSE h

\* reset without closeConnection()
reset_noClose(h) ==
    [h EXCEPT !.messages = <<>>, !.status = "idle", !.error = NoError,
              !.queryParamsRef = <<>>, !.boundUrl = <<>>, !.fullUrl = <<>>]

\* reset
reset(h) ==
    [closeConnection([h EXCEPT !.messages = <<>>, !.status = "idle",
                               !.error = NoError])
        EXCEPT !.queryParamsRef = <<>>, !.boundUrl = <<>>, !.fullUrl = <<>>]

\* The hook without its cleanup effect.
unmountCleanup_none(h) == h

\* The cleanup of the effect at lines 114-118, run when the owner unmounts.
unmountCleanup(h) == reset(h)

\* The effect on [status, onComplete]: call onComplete when the status is complete.
onCompleteEffect(h, cb) ==
    IF h.status = "complete" /\ cb # NoCallback
    THEN [h EXCEPT !.calls = IF @ < MaxCalls THEN @ + 1 ELSE @]
    ELSE h

\* Object.entries(queryParams): the keys in some fixed order.
entries(qp) ==
    CHOOSE ks \in [1..Cardinality(DOMAIN qp) -> DOMAIN qp] :
        \A i, j \in 1..Cardinality(DOMAIN qp) : i # j => ks[i] # ks[j]

\* What one entry adds to searchParams (lines 132-138): an array appends the
\* key once per element, a scalar sets the key when the value is truthy.
searchParamsOf(key, value) ==
    IF value.isArray
    THEN [i \in 1..Len(value.items) |-> <<key, value.items[i]>>]
    ELSE IF value.items[1] # ""
    THEN << <<key, value.items[1]>> >>
    ELSE <<>>

RECURSIVE searchParams(_, _, _)
searchParams(qp, ks, n) ==
    IF n = 0 THEN <<>>
    ELSE searchParams(qp, ks, n - 1) \o searchParamsOf(ks[n], qp[ks[n]])

\* fullUrl (lines 130-141): the url, then "?" and the serialized pairs when
\* there is any pair.  The values of the model need no percent-encoding.
fullUrl(u, qp) ==
    [endpoint |-> u, query |-> searchParams(qp, entries(qp), Cardinality(DOMAIN qp))]

\* connect with setMessages([]) left out.
connect_keepMessages(h, u, qp) ==
    LET id == h.attempts + 1
        bound == [h EXCEPT !.queryParamsRef = <<qp>>, !.boundUrl = <<u>>,
                           !.fullUrl = <<fullUrl(u, qp)>>,
                           !.error = NoError,
                           !.attempts = id, !.calls = 0, !.errorSeen = FALSE,
                           !.completeSeen = FALSE, !.transportSeen = FALSE]
        closed == IF bound.eventSourceRef # NoSource
                  THEN [bound EXCEPT !.open = @ \ {bound.eventSourceRef},
                                     !.eventSourceRef = NoSource]
                  ELSE bound
    IN IF InvalidUrl(u)
       THEN [closed EXCEPT !.error = ConnectError, !.status = "error"]
       ELSE [closed EXCEPT !.open = @ \cup {id}, !.eventSourceRef = id,
                           !.status = "streaming"]

\* The body of the connect effect after its guard (lines 124-188): bind the
\* params, clear the state, close the referenced EventSource, construct the next.
connect(h, u, qp) ==
    LET id == h.attempts + 1
        bound == [h EXCEPT !.queryParamsRef = <<qp>>, !.boundUrl = <<u>>,
                           !.fullUrl = <<fullUrl(u, qp)>>,
                           !.messages = <<>>, !.error = NoError,
                           !.attempts = id, !.calls = 0, !.errorSeen = FALSE,
                           !.completeSeen = FALSE, !.transportSeen = FALSE]
        closed == closeConnection(bound)
    IN IF InvalidUrl(u)
       THEN \* new EventSource throws: the catch at lines 183-188
            [closed EXCEPT !.error = ConnectError, !.status = "error"]
       ELSE [closed EXCEPT !.open = @ \cup {id}, !.eventSourceRef = id,
                           !.status = "streaming"]

\* The connect effect without the comparison with the bound params.
connectEffect_always(h, u, qp, en) ==
    IF ~en THEN h ELSE connect(h, u, qp)

\* The connect effect (lines 120-189).
connectEffect(h, u, qp, en) ==
    IF ~en \/ ~haveQueryParamsChanged(h.queryParamsRef, qp) THEN h
    ELSE connect(h, u, qp)

\* messageTransformer's default, (data) => data as T; src records which
\* EventSource delivered the message.
messageTransformer(type, content, src) ==
    [type |-> type, content |-> content, src |-> src]

\* onmessage reporting the text the server sent with its `error` message.
onmessage_echoesPayload(h, src, ev) ==
    LET seen == src = h.attempts
        text == IF ev.parses /\ ev.content # "" THEN ev.content ELSE ProcessError
    IN IF ev.parses /\ ev.type = "complete"
       THEN [closeConnection([h EXCEPT !.status = "complete"])
                EXCEPT !.completeSeen = @ \/ seen]
       ELSE IF ev.parses /\ ev.type # "error"
       THEN [h EXCEPT !.messages =
                Append(@, messageTransformer(ev.type, ev.content, src))]
       ELSE [h EXCEPT !.error = text,
                      !.messages = Append(@, messageTransformer("error", text, src)),
                      !.status = "error",
                      !.errorSeen = @ \/ (seen /\ ev.parses)]

\* onmessage putting the new message in front of the list.
onmessage_prepend(h, src, ev) ==
    LET seen == src = h.attempts
    IN IF ev.parses /\ ev.type = "complete"
       THEN [closeConnection([h EXCEPT !.status = "complete"])
                EXCEPT !.completeSeen = @ \/ seen]
       ELSE IF ev.parses /\ ev.type # "error"
       THEN [h EXCEPT !.messages =
                <<messageTransformer(ev.type, ev.content, src)>> \o @]
       ELSE [h EXCEPT !.error = ProcessError,
                      !.messages =
                          Append(@, messageTransformer("error", ProcessError, src)),
                      !.status = "error",
                      !.errorSeen = @ \/ (seen /\ ev.parses)]

\* eventSource.onmessage of EventSource src, for event.data = ev (lines 148-173).
onmessage(h, src, ev) ==
    LET seen == src = h.attempts
    IN IF ev.parses /\ ev.type = "complete"
       THEN [closeConnection([h EXCEPT !.status = "complete"])
                EXCEPT !.completeSeen = @ \/ seen]
       ELSE IF ev.parses /\ ev.type # "error"
       THEN [h EXCEPT !.messages =
                Append(@, messageTransformer(ev.type, ev.content, src))]
       ELSE \* JSON.parse threw, or the `error` message was thrown: the catch
            [h EXCEPT !.error = ProcessError,
                      !.messages =
                          Append(@, messageTransformer("error", ProcessError, src)),
                      !.status = "error",
                      !.errorSeen = @ \/ (seen /\ ev.parses)]

\* onerror as the commented-out lines 177-178 had it: report a connection error.
onerror_reportsError(h, src) ==
    [closeConnection([h EXCEPT !.status = "error",
                               !.error = "Connection error. Please try again."])
        EXCEPT !.transportSeen = @ \/ (src = h.attempts)]

\* onerror without closeConnection()
onerror_noClose(h, src) ==
    [h EXCEPT !.status = "complete", !.transportSeen = @ \/ (src = h.attempts)]

\* eventSource.onerror (lines 175-182).
onerror(h, src) ==
    [closeConnection([h EXCEPT !.status = "complete"])
        EXCEPT !.transportSeen = @ \/ (src = h.attempts)]

(***************************************************************************)
(* React.  After a state update or an owner re-render the component        *)
(* renders and the effects whose dependencies changed run in declaration   *)
(* order: the onComplete effect on [status, onComplete], then the connect  *)
(* effect on [url, queryParams, haveQueryParamsChanged, closeConnection,   *)
(* messageTransformer, enabled].  `fresh` says that the owner passed a new *)
(* queryParams object or a new messageTransformer function (an object      *)
(* literal, or the default transformer, is new on every render).           *)
(* The connect effect only ever sets the status to streaming or error, so  *)
(* the render that follows its state updates calls nothing.                *)
(***************************************************************************)
Props == [url |-> url, queryParams |-> queryParams, enabled |-> enabled,
          onComplete |-> onComplete]

render(h, prevStatus, prev, next, fresh) ==
    LET h1 == IF h.status # prevStatus \/ next.onComplete # prev.onComplete
              THEN onCompleteEffect(h, next.onComplete) ELSE h
    IN IF \/ fresh
          \/ next.url # prev.url
          \/ next.queryParams # prev.queryParams
          \/ next.enabled # prev.enabled
       THEN connectEffect(h1, next.url, next.queryParams, next.enabled)
       ELSE h1

\* The first commit runs every effect.
mount(h, p) ==
    connectEffect(onCompleteEffect(h, p.onComplete), p.url, p.queryParams, p.enabled)

SetProps(p) ==
    /\ url' = p.url
    /\ queryParams' = p.queryParams
    /\ enabled' = p.enabled
    /\ onComplete' = p.onComplete

(***************************************************************************)
(* Actions.                                                                *)
(***************************************************************************)
\* The owner's first render passes props drawn from U, P and C.
InitOver(U, P, C) ==
    /\ phase = "initial"
    /\ url \in U
    /\ queryParams \in P
    /\ enabled \in BOOLEAN
    /\ onComplete \in C
    /\ hook = InitialHook
    /\ owner = DeepResearch
    /\ zombies = {}
    /\ container = "mounted"
    /\ tabs = <<>>
    /\ activeTabID = DeepResearch
    /\ location = <<>>
    /\ uuids = 0
    /\ deleted = {}
    /\ localStorage = EmptyStorage

\* The first commit of the owner.
Mount ==
    /\ phase = "initial"
    /\ hook' = mount(hook, Props)
    /\ phase' = "mounted"
    /\ UNCHANGED <<propVars, owner, zombies, wsVars>>

\* The owner re-renders with props p.
Rerender(p, fresh) ==
    /\ phase = "mounted"
    /\ p.queryParams # queryParams => fresh
    /\ LET h == render(hook, hook.status, Props, p, fresh)
       IN /\ h.attempts <= MaxAttempts
          /\ hook' = h
    /\ SetProps(p)
    /\ UNCHANGED <<phase, owner, zombies, wsVars>>

\* EventSource src delivers a message event; the state update re-renders the
\* owner, which passes the same props, possibly as new objects.
Message(src, ev, cb, fresh) ==
    /\ phase = "mounted"
    /\ src \in hook.open
    /\ (ev.parses /\ ev.type = "complete") \/ Len(hook.messages) < MaxMsgs
    /\ LET p == [Props EXCEPT !.onComplete = cb]
           h == render(onmessage(hook, src, ev), hook.status, Props, p, fresh)
       IN /\ h.attempts <= MaxAttempts
          /\ hook' = h
          /\ SetProps(p)
    /\ UNCHANGED <<phase, owner, zombies, wsVars>>

\* EventSource src fires its error event.
TransportError(src, cb, fresh) ==
    /\ phase = "mounted"
    /\ src \in hook.open
    /\ LET p == [Props EXCEPT !.onComplete = cb]
           h == render(onerror(hook, src), hook.status, Props, p, fresh)
       IN /\ h.attempts <= MaxAttempts
          /\ hook' = h
          /\ SetProps(p)
    /\ UNCHANGED <<phase, owner, zombies, wsVars>>

\* The owner calls the reset() the hook returned.
Reset(cb, fresh) ==
    /\ phase = "mounted"
    /\ LET p == [Props EXCEPT !.onComplete = cb]
           h == render(reset(hook), hook.status, Props, p, fresh)
       IN /\ h.attempts <= MaxAttempts
          /\ hook' = h
          /\ SetProps(p)
    /\ UNCHANGED <<phase, owner, zombies, wsVars>>

\* The hook instance is unmounted: its cleanup runs.
UnmountConsumer ==
    /\ LET h == unmountCleanup(hook)
       IN hook' = [h EXCEPT !.unmountClosed = (hook.open # {} /\ h.open = {})]
    /\ phase' = "unmounted"
    /\ UNCHANGED <<propVars, owner, zombies>>

\* The owner of the hook unmounts (for TopicDetail: the topic is deselected).
Unmount ==
    /\ phase = "mounted"
    /\ UnmountConsumer
    /\ UNCHANGED wsVars

PropsOver(U, P, C) ==
    [url : U, queryParams : P, enabled : BOOLEAN, onComplete : C]

\* The steps of one hook instance whose owner passes urls of U, params of P and
\* callbacks of C, and whose EventSources deliver events of E.
NextOver(U, P, E, C) ==
    \/ Mount
    \/ \E p \in PropsOver(U, P, C), fresh \in BOOLEAN : Rerender(p, fresh)
    \/ \E src \in 1..MaxAttempts, ev \in E, cb \in C, fresh \in BOOLEAN :
           Message(src, ev, cb, fresh)
    \/ \E src \in 1..MaxAttempts, cb \in C, fresh \in BOOLEAN :
           TransportError(src, cb, fresh)
    \/ \E cb \in C, fresh \in BOOLEAN : Reset(cb, fresh)
    \/ Unmount

\* The lifecycle of one hook: every kind of event and callback, two targets'
\* worth of params, a valid and an invalid endpoint.
LifecycleUrls == {"/api/a", BadUrl}
LifecycleParams == {P_qa, P_qb}
Init == InitOver(LifecycleUrls, LifecycleParams, Callbacks)
Next == NextOver(LifecycleUrls, LifecycleParams, Events, Callbacks)
Spec == Init /\ [][Next]_vars

\* Target changes: every url and parameter map, no callback, and only the
\* events needed to fill the message list and end a stream.
TargetEvents == {ev \in Events : ev.parses /\ ev.type \in {"content", "complete"}}
InitTarget == InitOver(Urls, ParamSets, {NoCallback})
NextTarget == NextOver(Urls, ParamSets, TargetEvents, {NoCallback})
SpecTarget == InitTarget /\ [][NextTarget]_vars

\* The hook over the targets whose params differ in how they serialize.
UrlEndpoints == {"/api/a", "/api/b"}
UrlParams == {P_empty, P_qa, P_qEmpty, P_qL_ab, P_qL_none}
InitUrl == InitOver(UrlEndpoints, UrlParams, {NoCallback})
NextUrl == NextOver(UrlEndpoints, UrlParams, TargetEvents, {NoCallback})
SpecUrl == InitUrl /\ [][NextUrl]_vars

\* One stream as the server sends it for a paper: a status message, two
\* fragments of content and `complete`.
Script ==
    << [parses |-> TRUE, type |-> "status", content |-> "starting"],
       [parses |-> TRUE, type |-> "content", content |-> "The "],
       [parses |-> TRUE, type |-> "content", content |-> "paper..."],
       [parses |-> TRUE, type |-> "complete", content |-> ""] >>

\* The referenced EventSource delivers the next message of the script: the
\* messages before it are the ones the list holds.
ScriptMessage(cb, fresh) ==
    /\ phase = "mounted"
    /\ hook.eventSourceRef \in hook.open
    /\ Len(hook.messages) < Len(Script)
    /\ LET p == [Props EXCEPT !.onComplete = cb]
           ev == Script[Len(hook.messages) + 1]
           h == render(onmessage(hook, hook.eventSourceRef, ev), hook.status, Props, p, fresh)
       IN /\ h.attempts <= MaxAttempts
          /\ hook' = h
          /\ SetProps(p)
    /\ UNCHANGED <<phase, owner, zombies, wsVars>>

\* isLoading of DeepResearchView and TopicDetail
viewIsLoading(status) == status = "connecting" \/ status = "streaming"

\* Array.prototype.join("") over the fragments
RECURSIVE join(_)
join(fs) == IF fs = <<>> THEN "" ELSE fs[1] \o join(Tail(fs))

\* A hook whose streams all follow the script, under an owner that re-renders,
\* changes the params and unmounts.
InitScript == InitOver({"/api/a"}, LifecycleParams, Callbacks)
NextScript ==
    \/ Mount
    \/ \E p \in PropsOver({"/api/a"}, LifecycleParams, Callbacks), fresh \in BOOLEAN :
           Rerender(p, fresh)
    \/ \E cb \in Callbacks, fresh \in BOOLEAN : ScriptMessage(cb, fresh)
    \/ Unmount
SpecScript == InitScript /\ [][NextScript]_vars


(***************************************************************************)
(* ResearchContainer: the session list, the active view and the hook       *)
(* instance the active view renders.                                       *)
(***************************************************************************)
\* ResearchTab
Tab(id, title) == [id |-> id, title |-> title, isLoading |-> FALSE,
                   initialUrl |-> Undefined]

TabIdsOf(ts) == {ts[i].id : i \in 1..Len(ts)}

\* The container's state as a record, for its handlers to transform.
Container ==
    [tabs |-> tabs, activeTabID |-> activeTabID, location |-> location,
     storage |-> localStorage]

\* The path pushActiveTab gives to window.history.pushState.
PathOf(tabId) ==
    IF tabId = Explore THEN <<"/explore">>
    ELSE IF tabId = DeepResearch THEN <<"/deep-research">>
    ELSE <<"/paper", tabId>>

pushActiveTab_knownOnly(w, tabId) ==
    IF tabId \in TabIdsOf(w.tabs) \cup {Explore, DeepResearch}
    THEN [w EXCEPT !.activeTabID = tabId,
                   !.location = IF tabId = Explore THEN <<"/explore">>
                                ELSE IF tabId = DeepResearch THEN <<"/deep-research">>
                                ELSE <<"/paper", tabId>>]
    ELSE w

pushActiveTab(w, tabId) ==
    [w EXCEPT !.activeTabID = tabId, !.location = PathOf(tabId)]

initializeDefaultTab(w) ==
    pushActiveTab([w EXCEPT !.tabs = <<Tab(TabId(1), Undefined)>>], TabId(1))

\* JSON.parse of a stored list: objects with an id and a title and no other
\* field (isLoading and initialUrl read as undefined, which is falsy).
parsedTabs(value) == [i \in 1..Len(value) |-> Tab(value[i].id, value[i].title)]

\* The effect at lines 50-75, for the value of localStorage "research-tabs".
restoreTabs(w, savedTabs) ==
    IF savedTabs.present
    THEN IF savedTabs.parses THEN [w EXCEPT !.tabs = parsedTabs(savedTabs.value)]
         ELSE initializeDefaultTab(w)
    ELSE initializeDefaultTab(w)

\* A title is truthy unless it is absent or the empty string.
Truthy(title) == title \notin {Undefined, ""}

\* tabs.filter((tab) => !tab.isLoading && tab.title).map(({id, title}) => ...)
RECURSIVE finishedTabs(_)
finishedTabs(ts) ==
    IF ts = <<>> THEN <<>>
    ELSE IF ~Head(ts).isLoading /\ Truthy(Head(ts).title)
         THEN <<[id |-> Head(ts).id, title |-> Head(ts).title]>>
                  \o finishedTabs(Tail(ts))
         ELSE finishedTabs(Tail(ts))

\* The effect at lines 87-98 (dependency: tabs), on the storage `store`.
saveTabsEffect(w, store) ==
    IF Len(w.tabs) > 0
    THEN [store EXCEPT !.researchTabs =
              [present |-> TRUE, parses |-> TRUE, value |-> finishedTabs(w.tabs)]]
    ELSE store

\* prevTabs.findIndex((tab) => tab.id === tabId), 0-based, -1 when absent
findIndex(ts, tabId) ==
    IF \E i \in 1..Len(ts) : ts[i].id = tabId
    THEN (CHOOSE i \in 1..Len(ts) :
              ts[i].id = tabId /\ \A j \in 1..(i - 1) : ts[j].id # tabId) - 1
    ELSE -1

\* tabs.find((tab) => tab.id === tabId): <<>> for undefined
find(ts, tabId) ==
    IF findIndex(ts, tabId) = -1 THEN <<>> ELSE <<ts[findIndex(ts, tabId) + 1]>>

\* The effect at lines 100-106 writing the id of any tab of the list.
saveActiveEffect_anyTab(w, store) ==
    LET activeTab == find(w.tabs, w.activeTabID)
    IN IF activeTab # <<>>
       THEN [store EXCEPT !.researchActiveTab = <<w.activeTabID>>]
       ELSE store

\* The effect at lines 100-106 (dependencies: tabs, activeTabID).
saveActiveEffect(w, store) ==
    LET activeTab == find(w.tabs, w.activeTabID)
    IN IF activeTab # <<>> /\ ~activeTab[1].isLoading /\ Truthy(activeTab[1].title)
       THEN [store EXCEPT !.researchActiveTab = <<w.activeTabID>>]
       ELSE store

\* parseInt(id.split("-")[1], 10)
parseSecond(id) == IF id[1] = "tab" THEN id[2] ELSE id[3]

\* The id for a tab created from a paper: one more than the number of the
\* last tab of the list (NaN + 1 is NaN).
generateTabID(ts) ==
    LET latestTab == ts[Len(ts)]
        n == parseSecond(latestTab.id)
    IN TabId(IF n = NaN THEN NaN ELSE n + 1)

\* generateTabID throws a TypeError: tabs[tabs.length - 1] is undefined for an
\* empty list, and `.id` is read from it.
generateTabIDThrows(ts) == Len(ts) = 0

\* With an empty list generateTabID reads `.id` of undefined: the TypeError
\* leaves the handler before any state update.
onResearchPaper(w, paperUrl) ==
    IF paperUrl = "" \/ Len(w.tabs) = 0 THEN w
    ELSE [w EXCEPT !.tabs = Append(@, [id |-> generateTabID(w.tabs),
                                       title |-> Undefined,
                                       isLoading |-> FALSE,
                                       initialUrl |-> paperUrl])]

\* handleAddTab run by a render whose `tabs` was renderedTabs, on a container
\* w that has updates queued since: setTabs([...tabs, newTab]) is given a
\* value, not a function of the queued state, and replaces it.
handleAddTabOver(renderedTabs, w, newTabId) ==
    pushActiveTab([w EXCEPT !.tabs = Append(renderedTabs, Tab(newTabId, ""))], newTabId)

\* handleAddTab with nothing queued: the rendered list is the current one.
handleAddTab(w, newTabId) == handleAddTabOver(w.tabs, w, newTabId)

\* prevTabs.filter((tab) => tab.id !== tabId)
RECURSIVE filterOut(_, _)
filterOut(ts, tabId) ==
    IF ts = <<>> THEN <<>>
    ELSE IF Head(ts).id = tabId THEN filterOut(Tail(ts), tabId)
    ELSE <<Head(ts)>> \o filterOut(Tail(ts), tabId)
\* localStorage.removeItem(`research-state-${tabId}`), line 136
removeItem(w, tabId) ==
    [w EXCEPT !.storage.researchState = @ \ {tabId}]

\* handleDeleteTab preferring the tab that follows the deleted one.
handleDeleteTab_preferNext(w0, tabId) ==
    LET w == removeItem(w0, tabId)
        prevTabs == w.tabs
        newTabs == filterOut(prevTabs, tabId)
    IN IF tabId = w.activeTabID /\ Len(newTabs) > 0
       THEN LET deletedTabIndex == findIndex(prevTabs, tabId)
                newActiveIndex == IF deletedTabIndex < Len(newTabs)
                                  THEN deletedTabIndex ELSE Len(newTabs) - 1
            IN pushActiveTab([w EXCEPT !.tabs = newTabs],
                             newTabs[newActiveIndex + 1].id)
       ELSE IF Len(newTabs) = 0
       THEN pushActiveTab([w EXCEPT !.tabs = <<>>], DeepResearch)
       ELSE [w EXCEPT !.tabs = newTabs]

\* handleDeleteTab replacing the last tab by a default tab and showing the
\* explore view, as an earlier revision of the container did.
handleDeleteTab_defaultTab(w0, tabId) ==
    LET w == removeItem(w0, tabId)
        prevTabs == w.tabs
        newTabs == filterOut(prevTabs, tabId)
    IN IF tabId = w.activeTabID /\ Len(newTabs) > 0
       THEN LET deletedTabIndex == findIndex(prevTabs, tabId)
                newActiveIndex == IF deletedTabIndex - 1 > 0
                                  THEN deletedTabIndex - 1 ELSE 0
            IN pushActiveTab([w EXCEPT !.tabs = newTabs],
                             newTabs[newActiveIndex + 1].id)
       ELSE IF Len(newTabs) = 0
       THEN [w EXCEPT !.tabs = <<Tab(TabId(1), Undefined)>>, !.activeTabID = Explore]
       ELSE [w EXCEPT !.tabs = newTabs]

\* handleDeleteTab leaving the item `research-state-${tabId}` in the storage.
handleDeleteTab_keepSnapshot(w, tabId) ==
    LET prevTabs == w.tabs
        newTabs == filterOut(prevTabs, tabId)
    IN IF tabId = w.activeTabID /\ Len(newTabs) > 0
       THEN LET deletedTabIndex == findIndex(prevTabs, tabId)
                newActiveIndex == IF deletedTabIndex - 1 > 0
                                  THEN deletedTabIndex - 1 ELSE 0
            IN pushActiveTab([w EXCEPT !.tabs = newTabs],
                             newTabs[newActiveIndex + 1].id)
       ELSE IF Len(newTabs) = 0
       THEN pushActiveTab([w EXCEPT !.tabs = <<>>], DeepResearch)
       ELSE [w EXCEPT !.tabs = newTabs]

\* handleDeleteTab (lines 134-157): the item of the tab is removed first, then
\* the list is filtered and the active tab is moved.
handleDeleteTab(w0, tabId) ==
    LET w == removeItem(w0, tabId)
        prevTabs == w.tabs
        newTabs == filterOut(prevTabs, tabId)
    IN IF tabId = w.activeTabID /\ Len(newTabs) > 0
       THEN LET deletedTabIndex == findIndex(prevTabs, tabId)
                newActiveIndex == IF deletedTabIndex - 1 > 0
                                  THEN deletedTabIndex - 1 ELSE 0
            IN pushActiveTab([w EXCEPT !.tabs = newTabs],
                             newTabs[newActiveIndex + 1].id)
       ELSE IF Len(newTabs) = 0
       THEN pushActiveTab([w EXCEPT !.tabs = <<>>], DeepResearch)
       ELSE [w EXCEPT !.tabs = newTabs]

\* handleLoadingChange creating the tab it does not find.
handleLoadingChange_upsert(w, tabId, isLoading) ==
    IF tabId \in TabIdsOf(w.tabs)
    THEN [w EXCEPT !.tabs = [i \in 1..Len(@) |->
             IF @[i].id = tabId THEN [@[i] EXCEPT !.isLoading = isLoading] ELSE @[i]]]
    ELSE [w EXCEPT !.tabs = Append(@, [Tab(tabId, Undefined) EXCEPT
                                          !.isLoading = isLoading])]

handleLoadingChange(w, tabId, isLoading) ==
    [w EXCEPT !.tabs = [i \in 1..Len(@) |->
        IF @[i].id = tabId THEN [@[i] EXCEPT !.isLoading = isLoading] ELSE @[i]]]

\* handleTitleChange storing whatever title it is given.
handleTitleChange_anyTitle(w, tabId, title) ==
    [w EXCEPT !.tabs = [i \in 1..Len(@) |->
        IF @[i].id = tabId THEN [@[i] EXCEPT !.title = title] ELSE @[i]]]

\* handleTitleChange marking the titled tab as loaded as well.
handleTitleChange_endsLoading(w, tabId, title) ==
    IF ~Truthy(title) THEN w
    ELSE [w EXCEPT !.tabs = [i \in 1..Len(@) |->
             IF @[i].id = tabId
             THEN [@[i] EXCEPT !.title = title, !.isLoading = FALSE] ELSE @[i]]]

\* `title || tab.title` is title here, the falsy titles having returned.
handleTitleChange(w, tabId, title) ==
    IF ~Truthy(title) THEN w
    ELSE [w EXCEPT !.tabs = [i \in 1..Len(@) |->
             IF @[i].id = tabId THEN [@[i] EXCEPT !.title = title] ELSE @[i]]]

\* The element the container renders at lines 196-213: React keeps the instance
\* (and the hooks under it) while the component type and the key stay the same.
ViewOf(ts, active) ==
    IF active = Explore THEN <<"ExploreView">>
    ELSE IF active = DeepResearch THEN <<"DeepResearchView">>
    ELSE <<"Researcher", IF active \in TabIdsOf(ts) THEN active ELSE <<Undefined>>>>

\* The container commits state w: a view that is replaced unmounts, and with it
\* the hook instance it rendered; then the two saving effects run (with tabs
\* and activeTabID unchanged they would write what the storage already holds).
Commit(w) ==
    /\ tabs' = w.tabs
    /\ activeTabID' = w.activeTabID
    /\ location' = w.location
    /\ localStorage' = saveActiveEffect(w, saveTabsEffect(w, w.storage))
    /\ IF ViewOf(w.tabs, w.activeTabID) # ViewOf(tabs, activeTabID) /\ phase = "mounted"
       THEN UnmountConsumer
       ELSE UNCHANGED hookVars

\* What localStorage "research-tabs" can hold when the container mounts.
SavedTabs ==
    { NoItem,
      [present |-> TRUE, parses |-> FALSE, value |-> <<>>],
      [present |-> TRUE, parses |-> TRUE, value |-> <<>>],
      [present |-> TRUE, parses |-> TRUE,
       value |-> <<[id |-> TabId(1), title |-> "X"]>>],
      [present |-> TRUE, parses |-> TRUE,
       value |-> <<[id |-> TabId(1), title |-> "X"],
                   [id |-> Uuid(1, NaN), title |-> "Y"]>>],
      [present |-> TRUE, parses |-> TRUE,
       value |-> <<[id |-> TabId(1), title |-> "X"],
                   [id |-> Uuid(1, NaN), title |-> "Y"],
                   [id |-> TabId(2), title |-> "X"]>>] }

\* The ids whose view left an item `research-state-${id}` in the storage: the
\* sessions of the stored list.
SnapshotsOf(st) == {st.value[i].id : i \in 1..Len(st.value)}

\* What localStorage "research-active-tab" can hold when the container mounts.
SavedActive == {<<>>, <<TabId(1)>>}

\* The initialTab the route passes: a reserved view or the id in /paper/[id].
InitialTabs == {Explore, DeepResearch, TabId(1), Uuid(1, NaN)}

\* The first commit of the container: the restoring effect reads the storage,
\* and the saving effects of this commit see the empty list.
RestoreEffect ==
    /\ container = "initial"
    /\ container' = "mounted"
    /\ Commit(restoreTabs(Container, localStorage.researchTabs))
    /\ UNCHANGED <<uuids, deleted>>

\* A click on a tab of the sidebar, or on one of the two reserved views.
TabClick(tabId) ==
    /\ container = "mounted"
    /\ tabId \in TabIdsOf(tabs) \cup {Explore, DeepResearch}
    /\ Commit(pushActiveTab(Container, tabId))
    /\ UNCHANGED <<container, uuids, deleted>>

\* The sidebar's add button; uuidv4() hands out an id it never gave before.
AddTab(g) ==
    /\ container = "mounted"
    /\ Len(tabs) < MaxTabs
    /\ uuids < MaxUuids
    /\ uuids' = uuids + 1
    /\ Commit(handleAddTab(Container, Uuid(uuids + 1, g)))
    /\ UNCHANGED <<container, deleted>>

\* The close button of a tab of the sidebar.
DeleteTab(tabId) ==
    /\ container = "mounted"
    /\ tabId \in TabIdsOf(tabs)
    /\ tabId \in deleted \/ Cardinality(deleted) < MaxDeleted
    /\ deleted' = deleted \cup {tabId}
    /\ Commit(handleDeleteTab(Container, tabId))
    /\ UNCHANGED <<container, uuids>>

\* A paper is picked in ExploreView, or a citation in the Researcher view.
ResearchPaper(paperUrl) ==
    /\ container = "mounted"
    /\ activeTabID # DeepResearch
    /\ Len(tabs) < MaxTabs
    /\ Len(tabs) > 0 => parseSecond(tabs[Len(tabs)].id) < MaxTabNum
    /\ Commit(onResearchPaper(Container, paperUrl))
    /\ UNCHANGED <<container, uuids, deleted>>

\* The Researcher view reports its loading flag under the tabId it was given.
ReportLoading(tabId, isLoading) ==
    /\ container = "mounted"
    /\ Commit(handleLoadingChange(Container, tabId, isLoading))
    /\ UNCHANGED <<container, uuids, deleted>>

\* The Researcher view reports a title under the tabId it was given.
ReportTitle(tabId, title) ==
    /\ container = "mounted"
    /\ Commit(handleTitleChange(Container, tabId, title))
    /\ UNCHANGED <<container, uuids, deleted>>

\* The active view renders a component that calls useEventSource with props p
\* (DeepResearchView, or Researcher's TopicDetail once a topic is selected) and
\* its first commit runs.  A previous instance is discarded.
MountConsumer(p) ==
    /\ container = "mounted"
    /\ phase \in {"none", "unmounted"}
    /\ activeTabID # Explore
    /\ hook' = mount(InitialHook, p)
    /\ phase' = "mounted"
    /\ owner' = activeTabID
    /\ zombies' = zombies \cup (IF hook.open # {} THEN {owner} ELSE {})
    /\ SetProps(p)
    /\ UNCHANGED wsVars

\* The views pass no onComplete and never call reset().
ViewUrls == {"/api/a"}
ViewParams == {P_qa, P_qb}
ViewEvents == {ev \in Events : ev.type \in {"content", "complete", "error"}}
ViewProps == PropsOver(ViewUrls, ViewParams, {NoCallback})

\* The container before its first commit, with a storage drawn from S x A and
\* the initialTab of the route drawn from I.
InitContainer(S, A, I) ==
    /\ phase = "none"
    /\ url = "/api/a"
    /\ queryParams = P_qa
    /\ enabled = TRUE
    /\ onComplete = NoCallback
    /\ hook = InitialHook
    /\ owner = <<>>
    /\ zombies = {}
    /\ container = "initial"
    /\ tabs = <<>>
    /\ activeTabID \in I
    /\ location = <<>>
    /\ uuids = 1
    /\ deleted = {}
    /\ localStorage \in {[researchTabs |-> st, researchActiveTab |-> a,
                         researchState |-> SnapshotsOf(st)] : st \in S, a \in A}

\* The stored lists explored together with the hook of the active view.
ViewSavedTabs == {st \in SavedTabs : ~st.present \/ Len(st.value) = 2}

InitWS == InitContainer(ViewSavedTabs, {<<>>}, InitialTabs)

NextWS ==
    \/ RestoreEffect
    \/ \E tabId \in TabIdsOf(tabs) \cup {Explore, DeepResearch} : TabClick(tabId)
    \/ AddTab(NaN)
    \/ \E tabId \in TabIdsOf(tabs) : DeleteTab(tabId)
    \/ \E p \in ViewProps : MountConsumer(p)
    \/ \E p \in ViewProps, fresh \in BOOLEAN : Rerender(p, fresh)
    \/ \E src \in 1..MaxAttempts, ev \in ViewEvents, fresh \in BOOLEAN :
           Message(src, ev, NoCallback, fresh)
    \/ \E src \in 1..MaxAttempts, fresh \in BOOLEAN :
           TransportError(src, NoCallback, fresh)
    \/ Unmount

SpecWS == InitWS /\ [][NextWS]_vars

(***************************************************************************)
(* ResearchContainer alone: the session list, the reports of the Researcher *)
(* view and the storage, with no hook instance mounted.                    *)
(***************************************************************************)
\* url of a paper picked in a view; the empty string is falsy
PaperUrls == {"", "https://arxiv.org/abs/1"}
\* titles a Researcher view reports
ReportedTitles == {Undefined, "", "X"}
\* The tabId the container gives the Researcher view it renders (line 204).
ReportIds == {activeTabID} \ {Explore, DeepResearch}

\* Every id a session can have in these runs.
SessionIds ==
    {TabId(n) : n \in 1..(MaxTabNum + 1)} \cup {TabId(NaN)}
        \cup {Uuid(n, g) : n \in 1..MaxUuids, g \in UuidGroups}

NextTabs ==
    \/ RestoreEffect
    \/ \E tabId \in TabIdsOf(tabs) \cup {Explore, DeepResearch} : TabClick(tabId)
    \/ \E g \in UuidGroups : AddTab(g)
    \/ \E tabId \in TabIdsOf(tabs) : DeleteTab(tabId)
    \/ \E paperUrl \in PaperUrls : ResearchPaper(paperUrl)
    \/ \E tabId \in ReportIds, isLoading \in BOOLEAN : ReportLoading(tabId, isLoading)
    \/ \E tabId \in ReportIds, title \in ReportedTitles : ReportTitle(tabId, title)

InitTabs == InitContainer(SavedTabs, SavedActive, InitialTabs)

SpecTabs == InitTabs /\ [][NextTabs]_vars

\* The page is loaded again at the address the location shows: the route
\* (app/explore, app/deep-research, app/paper/[id]) renders a new container
\* with its initialTab, over the storage as it is.  An address that was never
\* pushed is the one the page was opened at.
Reload ==
    /\ container = "mounted"
    /\ container' = "initial"
    /\ tabs' = <<>>
    /\ activeTabID' = IF location = <<>> THEN activeTabID
                      ELSE IF location = <<"/explore">> THEN Explore
                      ELSE IF location = <<"/deep-research">> THEN DeepResearch
                      ELSE location[2]
    /\ UNCHANGED <<location, uuids, deleted, localStorage, hookVars>>

\* A browser that opens the explore page with nothing stored, and whose page
\* is loaded again at any time.
InitReload == InitContainer({NoItem}, {<<>>}, {Explore})
NextReload == NextTabs \/ Reload
SpecReload == InitReload /\ [][NextReload]_vars

\* An update of the list that a callback of the active view queues: a loading
\* report, a title report or a session for a paper.
QueuedUpdates ==
    [kind : {"loading"}, tabId : ReportIds, isLoading : BOOLEAN,
     title : {Undefined}, paperUrl : {""}]
    \cup [kind : {"title"}, tabId : ReportIds, isLoading : {FALSE},
          title : {"X", "Y"}, paperUrl : {""}]
    \cup [kind : {"paper"}, tabId : ReportIds, isLoading : {FALSE},
          title : {Undefined}, paperUrl : PaperUrls \ {""}]

applyQueued(w, u) ==
    IF u.kind = "loading" THEN handleLoadingChange(w, u.tabId, u.isLoading)
    ELSE IF u.kind = "title" THEN handleTitleChange(w, u.tabId, u.title)
    ELSE onResearchPaper(w, u.paperUrl)

\* A callback of the active view queues its update, and the add button is
\* clicked before the container has rendered again: its handler is the one of
\* the last render, and one commit follows both.
QueuedThenAddTab(u, g) ==
    /\ container = "mounted"
    /\ Len(tabs) < MaxTabs
    /\ uuids < MaxUuids
    /\ uuids' = uuids + 1
    /\ Commit(handleAddTabOver(tabs, applyQueued(Container, u), Uuid(uuids + 1, g)))
    /\ UNCHANGED <<container, deleted>>

NextQueued ==
    \/ NextTabs
    \/ \E u \in QueuedUpdates, g \in UuidGroups : QueuedThenAddTab(u, g)
SpecQueued == InitTabs /\ [][NextQueued]_vars

\* The container under the reports of its views alone: the stored list is
\* restored, sessions and reserved views are activated, and the view of the
\* active session reports loading flags and titles.
NextReports ==
    \/ RestoreEffect
    \/ \E tabId \in TabIdsOf(tabs) \cup {Explore, DeepResearch} : TabClick(tabId)
    \/ \E tabId \in ReportIds, isLoading \in BOOLEAN : ReportLoading(tabId, isLoading)
    \/ \E tabId \in ReportIds, title \in ReportedTitles : ReportTitle(tabId, title)
SpecReports == InitTabs /\ [][NextReports]_vars

(***************************************************************************)
(* Properties of one hook instance.                                        *)
(***************************************************************************)
Terminal == {"complete", "error"}

\* C1: at most one EventSource of a hook is open at any time, and it is the one
\* of the latest connect: a connect closes the previous EventSource before it
\* constructs the next.
C1_AtMostOneConnection ==
    /\ Cardinality(hook.open) <= 1
    /\ hook.open \subseteq {hook.attempts}

\* A second (or later) connection is open after a target switch.
C1_Witness ==
    /\ phase = "mounted"
    /\ hook.attempts >= 2
    /\ hook.open = {hook.attempts}
    /\ hook.eventSourceRef = hook.attempts

\* C2: every accumulated message was delivered by the EventSource of the latest
\* connect, and while the list holds a message no other EventSource is open:
\* the previous target's connection was closed and its messages cleared first.
C2_NoMixedMessages ==
    \A i \in 1..Len(hook.messages) :
        /\ hook.messages[i].src = hook.attempts
        /\ hook.open \subseteq {hook.messages[i].src}

\* A full message list accumulated on the connection of a later target.
C2_Witness ==
    /\ hook.attempts >= 2
    /\ hook.queryParamsRef = <<P_qb>>
    /\ Len(hook.messages) = MaxMsgs
    /\ \A i \in 1..Len(hook.messages) : hook.messages[i].type # "error"

\* C3 (as claimed): within one connection attempt the completion callback is
\* invoked at most once, whatever follows the `complete` message.
C3_CallbackAtMostOnce ==
    hook.calls <= 1

\* C4 (as claimed): once the status is `error` no connection is open.
C4_ErrorClosesConnection ==
    hook.status = "error" => hook.open = {}

\* C5 (as claimed): on an attempt that received an `error` message the
\* completion callback is never invoked.
C5_NoCallbackAfterError ==
    hook.errorSeen => hook.calls = 0

\* C6: an error event of an EventSource that has delivered neither `complete`
\* nor `error` leaves the status `complete` and that EventSource closed.
C6_TransportErrorCompletes ==
    [][\A src \in 1..MaxAttempts :
          ( /\ ~hook.errorSeen
            /\ ~hook.completeSeen
            /\ \E cb \in Callbacks, fresh \in BOOLEAN : TransportError(src, cb, fresh) )
          => (hook'.status = "complete" /\ src \notin hook'.open)]_vars

\* The stream of the current attempt was ended by a transport error alone.
C6_Witness ==
    /\ hook.transportSeen
    /\ ~hook.errorSeen
    /\ ~hook.completeSeen
    /\ hook.status = "complete"
    /\ hook.open = {}

\* C7 (as claimed): from a terminal status, a step that is neither reset() nor
\* an unmount nor a new connect leaves the message list and the status as they are.
C7_TerminalIsFinal ==
    [][( /\ hook.status \in Terminal
         /\ hook'.attempts = hook.attempts
         /\ ~(\E cb \in Callbacks, fresh \in BOOLEAN : Reset(cb, fresh))
         /\ ~Unmount )
       => (hook'.messages = hook.messages /\ hook'.status = hook.status)]_vars

\* C8 (as claimed): a re-render that, while enabled, passes a target differing
\* from the bound one in the url or in the params rebinds: the previous
\* EventSource is closed, messages and error are cleared and, unless the
\* constructor rejects the url, an EventSource for the new target is open.
C8_RebindOnTargetChange ==
    [][( /\ phase = "mounted" /\ phase' = "mounted"
         /\ hook.queryParamsRef # <<>>
         /\ url' # url \/ queryParams' # queryParams \/ enabled' # enabled
         /\ enabled'
         /\ <<url'>> # hook.boundUrl \/ <<queryParams'>> # hook.queryParamsRef )
       => ( /\ hook'.attempts = hook.attempts + 1
            /\ hook'.messages = <<>>
            /\ hook.eventSourceRef \notin hook'.open
            /\ hook'.boundUrl = <<url'>>
            /\ hook'.queryParamsRef = <<queryParams'>>
            /\ ~InvalidUrl(url') =>
                   (hook'.open = {hook'.attempts} /\ hook'.error = NoError) )]_vars

\* C9 (as claimed): a re-render that turns enabled off leaves no connection open.
C9_DisableCloses ==
    [][(phase = "mounted" /\ enabled /\ ~enabled') => hook'.open = {}]_vars


\* C10: an unmounted hook instance has no open EventSource, none is left behind
\* when an instance is discarded, and no open EventSource belongs to the view of
\* a session that was deleted and is not in the list.
C10_UnmountClosesConnection ==
    /\ zombies = {}
    /\ phase = "unmounted" => hook.open = {}
    /\ hook.open # {} => owner \notin (deleted \ TabIdsOf(tabs))

\* The session whose view held an open EventSource was deleted, and the unmount
\* closed that EventSource.
C10_Witness ==
    /\ phase = "unmounted"
    /\ hook.unmountClosed
    /\ hook.open = {}
    /\ owner \in deleted
    /\ owner \notin TabIdsOf(tabs)

(***************************************************************************)
(* Properties of the session list.                                         *)
(***************************************************************************)
\* C11 (as claimed): while the view of one session holds a hook instance with
\* an open EventSource, activating another session, adding a session or deleting another session
\* leaves that instance's open EventSource, its messages and its status as
\* they are.
C11_SessionsIndependent ==
    [][( /\ phase = "mounted"
         /\ owner \in TabIdsOf(tabs)
         /\ hook.open # {}
         /\ \/ \E tabId \in TabIdsOf(tabs) \ {owner} : TabClick(tabId)
            \/ \E g \in UuidGroups : AddTab(g)
            \/ \E tabId \in TabIdsOf(tabs) \ {owner} : DeleteTab(tabId) )
       => ( /\ phase' = "mounted"
            /\ hook'.open = hook.open
            /\ hook'.messages = hook.messages
            /\ hook'.status = hook.status )]_vars

\* C12 (as claimed): the sessions of the list have pairwise distinct ids.
C12_DistinctIds ==
    \A i, j \in 1..Len(tabs) : i # j => tabs[i].id # tabs[j].id

\* C13 (as claimed): an id that was assigned to a session and deleted is not
\* the id of a session of the list again.
C13_NoIdReuse ==
    \A tabId \in deleted : tabId \notin TabIdsOf(tabs)

\* C14: deleting the active session activates the session just before it in
\* the list; with none before it, the first session that remains after it;
\* with no session left, the reserved deep-research view, which is no session.
C14_DeleteActivatesNeighbour ==
    [][\A tabId \in TabIdsOf(tabs) :
          (tabId = activeTabID /\ DeleteTab(tabId)) =>
              LET first == CHOOSE i \in 1..Len(tabs) :
                             /\ tabs[i].id = tabId
                             /\ \A j \in 1..(i - 1) : tabs[j].id # tabId
                  after == {j \in 1..Len(tabs) : tabs[j].id # tabId}
              IN IF first > 1 THEN activeTabID' = tabs[first - 1].id
                 ELSE IF after # {}
                 THEN activeTabID' =
                          tabs[CHOOSE j \in after : \A k \in after : j <= k].id
                 ELSE /\ activeTabID' = DeepResearch
                      /\ tabs' = <<>>]_vars

\* The active session was deleted and the session before it is the active one:
\* the uuid tab is active from its creation, behind the tab that remains.
C14_Witness ==
    /\ \E tabId \in deleted : tabId[1] = "uuid" /\ tabId \notin TabIdsOf(tabs)
    /\ Len(tabs) = 1
    /\ activeTabID = tabs[1].id
    /\ location = PathOf(tabs[1].id)

C16_StoredListFollows ==
    [][tabs' # tabs =>
          /\ localStorage'.researchTabs.present
          /\ localStorage'.researchTabs.parses
          /\ localStorage'.researchTabs.value = finishedTabs(tabs')]_vars

\* C17 (as claimed): when the storage gives no session on mount (no stored
\* list, an unparsable one, or an empty array) the container ends up with
\* exactly one session, and it is the active one.
C17_RestoreNothingGivesDefault ==
    [][( /\ container = "initial" /\ container' = "mounted"
         /\ \/ ~localStorage.researchTabs.present
            \/ ~localStorage.researchTabs.parses
            \/ localStorage.researchTabs.value = <<>> )
       => (Len(tabs') = 1 /\ activeTabID' = tabs'[1].id)]_vars

\* C18 (as claimed): mounting on a storage that holds the list [{tab-1, "X"}]
\* and the active id tab-1 gives exactly one session, titled "X", and active.
C18_RestoreListAndActive ==
    [][( /\ container = "initial" /\ container' = "mounted"
         /\ localStorage.researchTabs.present /\ localStorage.researchTabs.parses
         /\ localStorage.researchTabs.value = <<[id |-> TabId(1), title |-> "X"]>>
         /\ localStorage.researchActiveTab = <<TabId(1)>> )
       => ( /\ Len(tabs') = 1
            /\ tabs'[1].id = TabId(1)
            /\ tabs'[1].title = "X"
            /\ activeTabID' = TabId(1) )]_vars

\* C19: the stored active id changes only to the id of a session of the list
\* that is not loading and has a title, and that id is the active one.
C19_ActiveIdWrittenWhenFinished ==
    [][localStorage'.researchActiveTab # localStorage.researchActiveTab =>
          /\ localStorage'.researchActiveTab = <<activeTabID'>>
          /\ \E i \in 1..Len(tabs') :
                 /\ tabs'[i].id = activeTabID'
                 /\ ~tabs'[i].isLoading
                 /\ Truthy(tabs'[i].title)]_vars

\* The id of a session created in this run was stored as the active id, after
\* the session got its title.
C19_Witness ==
    /\ \E g \in UuidGroups : localStorage.researchActiveTab = <<Uuid(2, g)>>
    /\ localStorage.researchActiveTab = <<activeTabID>>
    /\ \E i \in 1..Len(tabs) : tabs[i].id = activeTabID /\ tabs[i].title = "X"

\* C20: a title report with an empty or absent title changes neither the
\* session list nor the storage.
C20_EmptyTitleIsNoOp ==
    [][\A tabId \in ReportIds, title \in {Undefined, ""} :
          ReportTitle(tabId, title) =>
              (tabs' = tabs /\ localStorage' = localStorage)]_vars

\* The active session has a title, in the list and in the stored list, so an
\* empty title report for it would have a title to blank.
C20_Witness ==
    /\ container = "mounted"
    /\ \E i \in 1..Len(tabs) :
           /\ tabs[i].id = activeTabID
           /\ tabs[i].title = "X"
           /\ tabs[i].id[1] = "uuid"
           /\ ~tabs[i].isLoading
           /\ \E k \in 1..Len(localStorage.researchTabs.value) :
                  localStorage.researchTabs.value[k] = [id |-> activeTabID, title |-> "X"]

\* The ids a view can still report under although no session of the list has
\* them: the ids of deleted sessions and the id named by the route.
StaleIds ==
    (deleted \cup ({activeTabID} \cup InitialTabs)) \ ({Explore, DeepResearch} \cup TabIdsOf(tabs))

\* C21: a loading or title report for an id that no session of the list has
\* leaves the list as it is, whatever is reported and however often.
C21_ReportForMissingIdIsNoOp ==
    LET w == Container IN
    \A tabId \in StaleIds :
        /\ \A isLoading \in BOOLEAN :
               LET once == handleLoadingChange(w, tabId, isLoading) IN
               /\ once.tabs = tabs
               /\ handleLoadingChange(once, tabId, isLoading).tabs = tabs
        /\ \A title \in ReportedTitles :
               LET once == handleTitleChange(w, tabId, title) IN
               /\ once.tabs = tabs
               /\ handleTitleChange(once, tabId, title).tabs = tabs

C21_Witness ==
    /\ container = "mounted"
    /\ Len(tabs) > 0
    /\ activeTabID \in StaleIds
    /\ deleted \cap StaleIds # {}
    /\ ReportIds = {activeTabID}

\* C22 (as claimed): a step that creates a session, with the add button or
\* from a paper of a non-empty list, appends one tab that is not loading and
\* has no title, makes it the active one and puts its path in the location.
C22_CreateAppendsAndActivates ==
    [][( \/ \E g \in UuidGroups : AddTab(g)
         \/ Len(tabs) > 0 /\ \E paperUrl \in PaperUrls \ {""} : ResearchPaper(paperUrl) )
       => ( /\ Len(tabs') = Len(tabs) + 1
            /\ SubSeq(tabs', 1, Len(tabs)) = tabs
            /\ ~tabs'[Len(tabs')].isLoading
            /\ ~Truthy(tabs'[Len(tabs')].title)
            /\ activeTabID' = tabs'[Len(tabs')].id
            /\ location' = PathOf(tabs'[Len(tabs')].id) )]_vars

\* C23: activating an id makes it the active id and puts its path in the
\* location, the reserved path of an auxiliary view or else the path of the
\* session, whether or not the list has a session of that id, and leaves the
\* list alone.
C23_ActivateSetsIdAndLocation ==
    \A tabId \in SessionIds \cup {Explore, DeepResearch} :
        LET w == pushActiveTab(Container, tabId) IN
        /\ w.activeTabID = tabId
        /\ w.tabs = tabs
        /\ tabId = Explore => w.location = <<"/explore">>
        /\ tabId = DeepResearch => w.location = <<"/deep-research">>
        /\ tabId \notin {Explore, DeepResearch} => w.location = <<"/paper", tabId>>

C23_Witness ==
    /\ container = "mounted"
    /\ Len(tabs) > 0
    /\ deleted # {}
    /\ activeTabID = Explore
    /\ location = <<"/explore">>

\* C24: deleting a session of the list leaves the other sessions in their
\* order and leaves the storage without the item kept under the key of the
\* deleted id, the items of the other ids being kept.
C24_DeleteRemovesTabAndSnapshot ==
    [][\A tabId \in TabIdsOf(tabs) :
           (deleted' = deleted \cup {tabId} /\ DeleteTab(tabId)) =>
               LET Other(t) == t.id # tabId IN
               /\ tabs' = SelectSeq(tabs, Other)
               /\ tabId \notin TabIdsOf(tabs')
               /\ tabId \notin localStorage'.researchState
               /\ localStorage'.researchState = localStorage.researchState \ {tabId}]_vars

C24_Witness ==
    /\ container = "mounted"
    /\ TabId(1) \in deleted
    /\ TabId(1) \notin TabIdsOf(tabs)
    /\ TabId(1) \notin localStorage.researchState
    /\ Uuid(1, NaN) \in TabIdsOf(tabs)
    /\ Uuid(1, NaN) \in localStorage.researchState

\* C25 (as claimed): a session is marked as loading only while its view is
\* the one that is shown, the only view that has a load to report; a session
\* whose view was discarded by activating another one is not marked as loading.
C25_LoadingOnlyWhileLoadRuns ==
    container = "mounted" =>
        \A i \in 1..Len(tabs) : tabs[i].isLoading => tabs[i].id = activeTabID

\* C26: reset leaves no connection open, no message, no error and the status
\* idle; a second reset right after it, and a reset with no connection open,
\* change nothing more.
C26_ResetClearsAndIsIdempotent ==
    LET r == reset(hook) IN
    /\ r.open = {}
    /\ r.eventSourceRef = NoSource
    /\ r.messages = <<>>
    /\ r.error = NoError
    /\ r.status = "idle"
    /\ reset(r) = r

C26_Witness ==
    /\ phase = "mounted"
    /\ hook.attempts >= 1
    /\ hook.status = "idle"
    /\ hook.open = {}
    /\ hook.messages = <<>>
    /\ hook.queryParamsRef = <<>>

\* The content taken from every message, whatever its type.
ContentOf_everyType(ms) == [i \in 1..Len(ms) |-> ms[i].content]

\* The content fragments of a message list in the order of the list, which
\* DeepResearchView joins to the text it shows.
ContentOf(ms) ==
    LET IsContent(m) == m.type = "content"
        frags == SelectSeq(ms, IsContent)
    IN [i \in 1..Len(frags) |-> frags[i].content]

\* C27: within one binding the message list only grows at its end, by one
\* message per step; a message that parses and is neither `complete` nor
\* `error` is appended as delivered, its fragment coming last in the content,
\* and a `complete` message appends nothing.
C27_MessagesAppendInArrivalOrder ==
    [][( /\ phase = "mounted" /\ phase' = "mounted"
         /\ hook'.attempts = hook.attempts
         /\ hook'.queryParamsRef = hook.queryParamsRef )
       => /\ \/ hook'.messages = hook.messages
             \/ /\ Len(hook'.messages) = Len(hook.messages) + 1
                /\ SubSeq(hook'.messages, 1, Len(hook.messages)) = hook.messages
          /\ \A src \in hook.open, ev \in {e \in Events : e.parses /\ e.type # "error"} :
                 (\E cb \in Callbacks, fresh \in BOOLEAN : Message(src, ev, cb, fresh))
                 => IF ev.type = "complete"
                    THEN hook'.messages = hook.messages
                    ELSE /\ hook'.messages =
                                Append(hook.messages,
                                       [type |-> ev.type, content |-> ev.content, src |-> src])
                         /\ ContentOf(hook'.messages) =
                                ContentOf(hook.messages)
                                    \o (IF ev.type = "content" THEN <<ev.content>> ELSE <<>>)]_vars

C27_Witness ==
    /\ phase = "mounted"
    /\ hook.status = "streaming"
    /\ Len(hook.messages) = 2
    /\ hook.messages[1].type = "status"
    /\ hook.messages[2].type = "content"
    /\ ContentOf(hook.messages) = <<"The ">>

\* C28: a payload that does not parse, and an `error` message of the server,
\* append one `error` message with the one fixed text, whatever the payload
\* holds, and leave that same text as the error of the hook.
C28_ErrorMessageHasFixedText ==
    [][\A src \in hook.open, ev \in {e \in Events : ~e.parses \/ e.type = "error"} :
           ( /\ hook'.attempts = hook.attempts
             /\ \E cb \in Callbacks, fresh \in BOOLEAN : Message(src, ev, cb, fresh) )
           => /\ hook'.messages =
                     Append(hook.messages,
                            [type |-> "error",
                             content |-> "Failed to process stream data. Please try again.",
                             src |-> src])
              /\ hook'.error = "Failed to process stream data. Please try again."
              /\ hook'.status = "error"]_vars

C28_Witness ==
    /\ phase = "mounted"
    /\ hook.errorSeen
    /\ hook.status = "error"
    /\ hook.error = "Failed to process stream data. Please try again."
    /\ Len(hook.messages) = 2
    /\ hook.messages[1].type = "content"
    /\ hook.messages[2] = [type |-> "error",
                           content |-> "Failed to process stream data. Please try again.",
                           src |-> hook.attempts]

\* C29 (as claimed): the URL given to the EventSource is the endpoint with the
\* pairs of every parameter: a scalar gives its key once with its value, a list
\* gives its key once per element in the order of the list, and no pair comes
\* from anything else.
C29_UrlSerializesEveryParam ==
    hook.fullUrl # <<>> =>
        LET u == hook.fullUrl[1]
            qp == hook.queryParamsRef[1]
        IN /\ u.endpoint = hook.boundUrl[1]
           /\ \A i \in 1..Len(u.query) : u.query[i][1] \in DOMAIN qp
           /\ \A k \in DOMAIN qp :
                  LET OfKey(pair) == pair[1] = k
                      own == SelectSeq(u.query, OfKey)
                  IN IF qp[k].isArray
                     THEN own = [i \in 1..Len(qp[k].items) |-> <<k, qp[k].items[i]>>]
                     ELSE own = << <<k, qp[k].items[1]>> >>

\* C30: once an attempt has ended in `complete` or `error`, a step constructs
\* a new EventSource only if it is a reset() or passes params or a url other
\* than the bound ones; a re-render with the same target, a late message and
\* a transport error open nothing.
C30_NoReconnectOnItsOwn ==
    [][( /\ phase = "mounted" /\ phase' = "mounted"
         /\ hook.status \in Terminal
         /\ \/ hook'.attempts > hook.attempts
            \/ hook'.open \ hook.open # {} )
       => \/ \E cb \in Callbacks, fresh \in BOOLEAN : Reset(cb, fresh)
          \/ <<queryParams'>> # hook.queryParamsRef
          \/ <<url'>> # hook.boundUrl]_vars

\* An attempt has completed and the hook has rendered again since, calling the
\* callback a second time, without a second attempt.
C30_Witness ==
    /\ phase = "mounted"
    /\ hook.status = "complete"
    /\ hook.attempts = 1
    /\ hook.open = {}
    /\ hook.calls = 2

\* C31: in a binding that is sent the script, the delivery of `complete`
\* after the status message and the two fragments leaves the status `complete`
\* and the joined content "The paper...", and takes the loading flag from true
\* to false; the flag was true from the connect on and stays false afterwards
\* for as long as the binding lasts.
C31_ScriptEndsCompleteOnce ==
    [][( /\ phase = "mounted" /\ phase' = "mounted"
         /\ hook.attempts >= 1
         /\ hook'.attempts = hook.attempts )
       => /\ ( /\ Len(hook.messages) = 3
               /\ \E cb \in Callbacks, fresh \in BOOLEAN : ScriptMessage(cb, fresh) )
             => /\ hook'.status = "complete"
                /\ join(ContentOf(hook'.messages)) = "The paper..."
                /\ viewIsLoading(hook.status) /\ ~viewIsLoading(hook'.status)
          /\ ( /\ Len(hook.messages) < 3
               /\ \E cb \in Callbacks, fresh \in BOOLEAN : ScriptMessage(cb, fresh) )
             => viewIsLoading(hook.status) /\ viewIsLoading(hook'.status)
          /\ ~viewIsLoading(hook.status) => ~viewIsLoading(hook'.status)]_vars

C31_Witness ==
    /\ phase = "mounted"
    /\ hook.attempts = 1
    /\ hook.status = "complete"
    /\ hook.completeSeen
    /\ hook.open = {}
    /\ Len(hook.messages) = 3
    /\ join(ContentOf(hook.messages)) = "The paper..."

\* C32: a re-render that passes the bound url and params again, as new
\* objects, and the same enabled flag leaves the connection, the message list,
\* the error and the status as they are.
C32_EqualTargetIsNoOp ==
    [][( /\ phase = "mounted"
         /\ hook.queryParamsRef = <<queryParams>>
         /\ hook.boundUrl = <<url>>
         /\ Rerender(Props, TRUE) )
       => /\ hook'.open = hook.open
          /\ hook'.eventSourceRef = hook.eventSourceRef
          /\ hook'.attempts = hook.attempts
          /\ hook'.messages = hook.messages
          /\ hook'.error = hook.error
          /\ hook'.status = hook.status]_vars

\* A stream over a list of two values is open and has delivered a message.
C32_Witness ==
    /\ phase = "mounted"
    /\ queryParams = P_qL_ab
    /\ hook.queryParamsRef = <<P_qL_ab>>
    /\ hook.status = "streaming"
    /\ hook.open = {hook.attempts}
    /\ Len(hook.messages) >= 1

\* C33: with the status idle or complete no EventSource of the hook is open,
\* and with the status streaming one is.
C33_StatusMatchesConnection ==
    /\ hook.status \in {"idle", "complete"} => hook.open = {}
    /\ hook.status = "streaming" => hook.open # {}

\* The second binding of a hook streams after the first one has ended.
C33_Witness ==
    /\ phase = "mounted"
    /\ hook.attempts = 2
    /\ hook.status = "streaming"
    /\ hook.open = {2}
    /\ Len(hook.messages) = 1

\* C34 (as claimed): a hook that was given a null url has constructed no
\* EventSource and its status is idle.
C34_NullUrlStaysIdle ==
    (phase = "mounted" /\ url = NullUrl /\ hook.boundUrl \in {<<>>, <<NullUrl>>})
        => (hook.open = {} /\ hook.attempts = 0 /\ hook.status = "idle")

\* C35 (as claimed): a reset, and every later step that passes the same url
\* and params, leaves the hook idle with no EventSource open and no message.
C35_ResetStaysIdle ==
    [][( /\ phase = "mounted" /\ phase' = "mounted"
         /\ url' = url /\ queryParams' = queryParams
         /\ \/ \E cb \in Callbacks, fresh \in BOOLEAN : Reset(cb, fresh)
            \/ hook.attempts >= 1 /\ hook.status = "idle" /\ hook.queryParamsRef = <<>> )
       => /\ hook'.status = "idle"
          /\ hook'.open = {}
          /\ hook'.messages = <<>>]_vars

\* C36 (as claimed): wherever a view can ask for a session for a paper, the
\* request does not throw and appends a session whose id is tab-<number>.
C36_SeededCreationSucceeds ==
    (container = "mounted" /\ activeTabID # DeepResearch /\ Len(tabs) < MaxTabs) =>
        \A paperUrl \in PaperUrls \ {""} :
            LET w == onResearchPaper(Container, paperUrl) IN
            /\ ~generateTabIDThrows(tabs)
            /\ Len(w.tabs) = Len(tabs) + 1
            /\ \E n \in 1..(MaxTabNum + 1) : w.tabs[Len(w.tabs)].id = TabId(n)

\* C37 (as claimed): deleting a session other than the active one changes
\* neither the active id nor the location.
C37_DeleteOtherKeepsActive ==
    [][\A tabId \in TabIdsOf(tabs) :
           (tabId # activeTabID /\ deleted' = deleted \cup {tabId} /\ DeleteTab(tabId))
           => (activeTabID' = activeTabID /\ location' = location)]_vars

\* C38 (as claimed): once the container has restored, the active id is a
\* reserved view or the id of a session of the list, also after the page was
\* loaded again.
C38_ActiveIdIsReservedOrListed ==
    container = "mounted" => activeTabID \in {Explore, DeepResearch} \cup TabIdsOf(tabs)

\* C39 (as claimed): after an add that follows a queued update, the list is
\* the list with that update applied, followed by the new session.
C39_AddKeepsQueuedUpdates ==
    [][\A u \in QueuedUpdates :
           (\E g \in UuidGroups : QueuedThenAddTab(u, g))
           => /\ Len(tabs') = Len(applyQueued(Container, u).tabs) + 1
              /\ SubSeq(tabs', 1, Len(tabs') - 1) = applyQueued(Container, u).tabs]_vars

\* C40: a loading report for a session of the list changes the loading flag
\* of the sessions of that id and nothing else, and a report of a non-empty
\* title changes their title and nothing else: the length and order of the
\* list, the other sessions, the other fields, the active id and the location
\* stay as they are.
C40_ReportChangesOneField ==
    [][\A tabId \in ReportIds \cap TabIdsOf(tabs) :
           /\ \A v \in BOOLEAN :
                  ReportLoading(tabId, v)
                  => /\ Len(tabs') = Len(tabs)
                     /\ activeTabID' = activeTabID /\ location' = location
                     /\ \A i \in 1..Len(tabs) :
                            /\ tabs'[i].id = tabs[i].id
                            /\ tabs'[i].title = tabs[i].title
                            /\ tabs'[i].initialUrl = tabs[i].initialUrl
                            /\ tabs'[i].isLoading =
                                   IF tabs[i].id = tabId THEN v ELSE tabs[i].isLoading
           /\ \A t \in {x \in ReportedTitles : x # Undefined /\ x # ""} :
                  ReportTitle(tabId, t)
                  => /\ Len(tabs') = Len(tabs)
                     /\ activeTabID' = activeTabID /\ location' = location
                     /\ \A i \in 1..Len(tabs) :
                            /\ tabs'[i].id = tabs[i].id
                            /\ tabs'[i].isLoading = tabs[i].isLoading
                            /\ tabs'[i].initialUrl = tabs[i].initialUrl
                            /\ tabs'[i].title =
                                   IF tabs[i].id = tabId THEN t ELSE tabs[i].title]_vars

\* The session restored as "Y" was reported as loading and then as "X", next
\* to a session that no report was made for.
C40_Witness ==
    /\ container = "mounted"
    /\ Len(tabs) = 2
    /\ tabs[1].id = TabId(1) /\ tabs[1].title = "X" /\ ~tabs[1].isLoading
    /\ tabs[2].id = Uuid(1, NaN) /\ tabs[2].title = "X" /\ tabs[2].isLoading
    /\ activeTabID = Uuid(1, NaN)

====
